---- MODULE Spec2Model ----
(***************************************************************************)
(* Model of the resegoAI backend gateway: the Express router of the main   *)
(* server file (src/unnamed/part_000) and the research router              *)
(* (src/src/routes/research.ts).                                           *)
(*                                                                         *)
(* One request is in flight at a time (requests share nothing but the      *)
(* store).  Every `await` of a handler is a point where the environment    *)
(* (identity provider, arXiv, OpenRouter, Supabase) chooses the outcome;   *)
(* the code between two awaits runs to completion and is one action.       *)
(***************************************************************************)
EXTENDS Integers, Sequences, FiniteSets, TLC

(* ---------------------------------------------------------------- bounds *)
MaxPapers == 2          \* entries the search provider returns (max_results caps it)
MaxRecords == 1         \* rows the store holds before the model stops taking requests
MaxTagLen == 3          \* characters of the tag-completion text

(* ------------------------------------------------------------ value sets *)
Absent == "undefined"                 \* a JS `undefined` field
NoUser == [id |-> "nouser"]           \* req.user never assigned
NoId == "noid"                        \* a user object without an id
UserIds == {"u1", "u2"}
Queries == {"q"}
BodyTexts == {Absent, ""} \cup Queries

Falsy(x) == x \in {Absent, ""}

Routes == {"/api/search-papers", "/api/generate-report", "/api/suggest-prompt",
           "/api/analyze-paper", "/api/save-search", "/generate-report"}

\* routes registered with the imported authenticateToken middleware
TokenRoutes == {"/api/search-papers", "/api/generate-report",
                "/api/analyze-paper", "/api/save-search"}

\* routes whose request body carries `query`
QueryRoutes == {"/api/search-papers", "/api/generate-report",
                "/api/save-search", "/generate-report"}

NoBody == [kind |-> "none"]
NoRes == [status |-> 0, error |-> "", body |-> NoBody]

(* ------------------------------------------------- answers of the upstreams *)
\* supabase.auth.getUser(token)
IdpAnswers ==
    {[kind |-> "throws", id |-> NoId], [kind |-> "error", id |-> NoId],
     [kind |-> "nouser", id |-> NoId]}
    \cup {[kind |-> "user", id |-> i] : i \in UserIds \cup {NoId}}

\* fetch(arXiv) followed by DOMParser: n entries on success
SearchAnswers ==
    {[kind |-> k, n |-> 0] : k \in {"transport", "notok", "parsefail"}}
    \cup {[kind |-> "entries", n |-> n] : n \in 0..MaxPapers}

\* fetch(OpenRouter) followed by response.json(): the shape of the decoded body
\*   notjson       response.json() rejects
\*   nochoices     no `choices` member
\*   emptychoices  choices = []
\*   nocontent     choices[0].message has no `content`
\*   emptytext     content = ""
\*   text          content is a non-empty text
BodyShapes == {"notjson", "nochoices", "emptychoices", "nocontent", "emptytext", "text"}

\* A text is a sequence of characters; texts the code only copies are one token.
CompletionAnswers(texts) ==
    {[kind |-> "transport", ok |-> FALSE, shape |-> "notjson", content |-> <<>>]}
    \cup {[kind |-> "response", ok |-> o, shape |-> s, content |-> <<>>] :
             o \in BOOLEAN, s \in BodyShapes \ {"text"}}
    \cup {[kind |-> "response", ok |-> o, shape |-> "text", content |-> t] :
             o \in BOOLEAN, t \in texts}

\* supabase.from('reports').insert(..).select().single()
StoreAnswers == {"record", "error", "norecord"}

(* ------------------------------------------------------------------ state *)
VARIABLES
    pc,         \* position of the request's handler
    route,      \* the route the request was sent to
    header,     \* req.headers.authorization: "none" or "Bearer t"
    body,       \* req.body
    user,       \* req.user
    idp,        \* the identity provider's answer for this request
    res,        \* the response sent (status 0: none yet)
    sent,       \* number of responses sent for this request
    calls,      \* upstream calls issued during this request
    papers,     \* papers of this request
    tasks,      \* the per-paper promises handed to Promise.all
    prompt,     \* analyses embedded in the synthesis prompt
    finalReport,\* content returned by the synthesis call
    suggestions,\* parsed primary suggestion of /api/suggest-prompt
    store,      \* rows of the `reports` relation
    answers     \* what the upstreams answered during this request

vars == <<pc, route, header, body, user, idp, res, sent, calls, papers, tasks,
          prompt, finalReport, suggestions, store, answers>>

NoCalls == [search |-> 0, completion |-> 0, store |-> 0]
NoSuggestions == [kind |-> "none", fields |-> {}, researchTags |-> <<>>]
NoAnswer == [kind |-> "none", ok |-> FALSE, shape |-> "notjson", content |-> <<>>]
NoAnswers == [search |-> [kind |-> "none", n |-> 0], synthesis |-> NoAnswer,
              primary |-> NoAnswer, tags |-> NoAnswer, store |-> "none"]

Init ==
    /\ pc = "idle"
    /\ route = "/api/search-papers"
    /\ header = "none"
    /\ body = [query |-> Absent, abstract |-> Absent, initialQuery |-> Absent,
               consolidatedSummary |-> Absent]
    /\ user = NoUser
    /\ idp = [kind |-> "none", id |-> NoId]
    /\ res = NoRes
    /\ sent = 0
    /\ calls = NoCalls
    /\ papers = <<>>
    /\ tasks = <<>>
    /\ prompt = <<>>
    /\ finalReport = <<>>
    /\ suggestions = NoSuggestions
    /\ store = <<>>
    /\ answers = NoAnswers

(* ---------------------------------------------------------------- helpers *)
\* res.status(s).json(b): one more response on the wire; the first one is what
\* the caller receives
Respond(s, e, b) ==
    /\ res' = IF sent = 0 THEN [status |-> s, error |-> e, body |-> b] ELSE res
    /\ sent' = sent + 1

Issue(kind, n) == calls' = [calls EXCEPT ![kind] = @ + n]

\* lines 201-204 (and 61-64, research.ts:18-22): `if (!query)`
QueryMissing(b) == Falsy(b.query)

\* the owner check without its `!user.id` half
OwnerMissing_UserOnly(u) == u = NoUser

\* lines 411-413 and 616-618: `if (!user || !user.id)`
OwnerMissing(u) == u = NoUser \/ u.id = NoId

(* ------------------------------------------------------------- the request *)
\* A client sends a request.  The research router is registered without a
\* middleware of its own (research.ts:71): req.user is whatever the context in
\* front of it attached, nothing when the credential is absent or rejected.
Receive ==
    /\ pc = "idle"
    /\ Len(store) < MaxRecords
    /\ \E r \in Routes, h \in {"none", "Bearer t"}, t \in BodyTexts,
          c \in {Absent, "summary"}, u \in {NoUser} \cup {[id |-> i] : i \in UserIds} :
          /\ r = "/generate-report" => (h = "none" => u = NoUser)
          /\ r # "/generate-report" => u = NoUser
          /\ r # "/api/save-search" => c = Absent
          /\ route' = r
          /\ header' = h
          /\ body' = [query |-> IF r \in QueryRoutes THEN t ELSE Absent,
                      abstract |-> IF r = "/api/analyze-paper" THEN t ELSE Absent,
                      initialQuery |-> IF r = "/api/suggest-prompt" THEN t ELSE Absent,
                      consolidatedSummary |-> c]
          /\ user' = u
          /\ pc' = IF r = "/generate-report" THEN "handler" ELSE "gate"
    /\ UNCHANGED <<idp, res, sent, calls, papers, tasks, prompt, finalReport,
                   suggestions, store, answers>>

\* The request is over: its context (req, res, the handler's locals) is dropped
\* and the server waits for the next request; only the store outlives it.
Finish ==
    /\ pc = "done"
    /\ pc' = "idle"
    /\ route' = "/api/search-papers"
    /\ header' = "none"
    /\ body' = [query |-> Absent, abstract |-> Absent, initialQuery |-> Absent,
                consolidatedSummary |-> Absent]
    /\ user' = NoUser
    /\ idp' = [kind |-> "none", id |-> NoId]
    /\ res' = NoRes
    /\ sent' = 0
    /\ calls' = NoCalls
    /\ papers' = <<>>
    /\ tasks' = <<>>
    /\ prompt' = <<>>
    /\ finalReport' = <<>>
    /\ suggestions' = NoSuggestions
    /\ answers' = NoAnswers
    /\ UNCHANGED store

(* ------------------------------------------------------ Authentication Gate *)
\* The gate's verdict on a credential the identity provider answered with `a`:
\* rejected on a provider error or a missing user, passed otherwise.
GateMessage(a) ==
    CASE a.kind = "throws" -> "Authentication failed"
      [] a.kind \in {"error", "nouser"} -> "Invalid token"
      [] OTHER -> ""

GatePasses(a) == a.kind = "user"

\* authenticateUser, lines 164-169: no Authorization header
authenticateUser_NoHeader ==
    /\ pc = "gate" /\ route = "/api/suggest-prompt"
    /\ header = "none"
    /\ Respond(401, "No authorization header", NoBody)
    /\ pc' = "done"
    /\ UNCHANGED <<answers, route, header, body, user, idp, calls, papers, tasks, prompt,
                   finalReport, suggestions, store>>

\* authenticateUser, lines 171-184: the identity provider answers
authenticateUser_Verify ==
    /\ pc = "gate" /\ route = "/api/suggest-prompt"
    /\ header # "none"
    /\ \E a \in IdpAnswers :
          /\ idp' = a
          /\ IF GatePasses(a)
             THEN /\ user' = [id |-> a.id]
                  /\ pc' = "handler"
                  /\ UNCHANGED <<res, sent>>
             ELSE /\ Respond(401, GateMessage(a), NoBody)
                  /\ pc' = "done"
                  /\ UNCHANGED user
    /\ UNCHANGED <<answers, route, header, body, calls, papers, tasks, prompt,
                   finalReport, suggestions, store>>

\* authenticateToken (./middleware/auth): absent credential
authenticateToken_NoHeader ==
    /\ pc = "gate" /\ route \in TokenRoutes
    /\ header = "none"
    /\ Respond(401, "Unauthorized", NoBody)
    /\ pc' = "done"
    /\ UNCHANGED <<answers, route, header, body, user, idp, calls, papers, tasks, prompt,
                   finalReport, suggestions, store>>

\* authenticateToken (./middleware/auth): the identity provider answers
authenticateToken_Verify ==
    /\ pc = "gate" /\ route \in TokenRoutes
    /\ header # "none"
    /\ \E a \in IdpAnswers :
          /\ idp' = a
          /\ IF GatePasses(a)
             THEN /\ user' = [id |-> a.id]
                  /\ pc' = "handler"
                  /\ UNCHANGED <<res, sent>>
             ELSE /\ Respond(401, "Unauthorized", NoBody)
                  /\ pc' = "done"
                  /\ UNCHANGED user
    /\ UNCHANGED <<answers, route, header, body, calls, papers, tasks, prompt,
                   finalReport, suggestions, store>>

(* ------------------------------------- research router: POST /generate-report *)
\* generateReportHandler, research.ts:11-69
generateReportHandler ==
    /\ pc = "handler" /\ route = "/generate-report"
    /\ IF QueryMissing(body)
       THEN Respond(400, "Query is required", NoBody)
       ELSE IF user = NoUser
       THEN Respond(401, "User not authenticated", NoBody)
       ELSE Respond(200, "", [kind |-> "mockReport", query |-> body.query])
    /\ pc' = "done"
    /\ UNCHANGED <<answers, route, header, body, user, idp, calls, papers, tasks, prompt,
                   finalReport, suggestions, store>>

(* ------------------------------------------------------ POST /api/save-search *)
\* the row the store returns for an insert
Row(uid, title, content, type) ==
    [id |-> Len(store) + 1, user_id |-> uid, title |-> title,
     content |-> content, type |-> type]

\* lines 612-632: owner check, then the insert is issued
saveSearch_Start ==
    /\ pc = "handler" /\ route = "/api/save-search"
    /\ IF OwnerMissing(user)
       THEN /\ Respond(500, "No authenticated user found", NoBody)
            /\ pc' = "done"
            /\ UNCHANGED calls
       ELSE /\ Issue("store", 1)
            /\ pc' = "ss_insert"
            /\ UNCHANGED <<res, sent>>
    /\ UNCHANGED <<answers, route, header, body, user, idp, papers, tasks, prompt,
                   finalReport, suggestions, store>>

\* lines 621-649: the store answers
saveSearch_Inserted ==
    /\ pc = "ss_insert"
    /\ \E a \in StoreAnswers :
          /\ answers' = [answers EXCEPT !.store = a]
          /\ LET row == Row(user.id, body.query, body.consolidatedSummary, "search") IN
             CASE a = "error" ->
                    /\ Respond(500, "Failed to save search: rejected", NoBody)
                    /\ UNCHANGED store
               [] a = "record" ->
                    /\ store' = Append(store, row)
                    /\ Respond(200, "", [kind |-> "savedSearch", savedSearch |-> row])
               [] a = "norecord" ->
                    /\ UNCHANGED store
                    /\ Respond(200, "", [kind |-> "savedSearch", savedSearch |-> NoBody])
    /\ pc' = "done"
    /\ UNCHANGED <<route, header, body, user, idp, calls, papers, tasks, prompt,
                   finalReport, suggestions>>

(* --------------------------------------------------- POST /api/generate-report *)
\* Step 1 without the `if (!arxivResponse.ok)` throw
SearchFailed_NoStatusCheck(a) == a.kind \in {"transport", "parsefail"}

\* Step 1, lines 207-232: what the try block makes of the provider's answer
SearchFailed(a) == a.kind \in {"transport", "notok", "parsefail"}

\* Step 2 reading the body as `data.choices?.[0]`: a body without a choices
\* list falls back to the literal instead of throwing
AnalysisOutcome_OptionalChoices(a) ==
    CASE a.kind = "transport" ->
           [state |-> "rejected", analysis |-> <<>>, error |-> "fetch failed"]
      [] a.shape = "notjson" ->
           [state |-> "rejected", analysis |-> <<>>, error |-> "invalid json response body"]
      [] a.shape = "text" ->
           [state |-> "fulfilled", analysis |-> a.content, error |-> ""]
      [] OTHER ->
           [state |-> "fulfilled", analysis |-> <<"Analysis failed">>, error |-> ""]

\* Step 2, lines 236-266: one per-paper promise.  The fetch may reject, json()
\* may reject, `data.choices[0]` throws when there is no choices list; the status
\* of the response is not looked at; a missing or empty content becomes the
\* literal 'Analysis failed'.
AnalysisOutcome(a) ==
    CASE a.kind = "transport" ->
           [state |-> "rejected", analysis |-> <<>>, error |-> "fetch failed"]
      [] a.shape = "notjson" ->
           [state |-> "rejected", analysis |-> <<>>, error |-> "invalid json response body"]
      [] a.shape = "nochoices" ->
           [state |-> "rejected", analysis |-> <<>>, error |-> "Cannot read properties of undefined"]
      [] a.shape = "text" ->
           [state |-> "fulfilled", analysis |-> a.content, error |-> ""]
      [] OTHER ->
           [state |-> "fulfilled", analysis |-> <<"Analysis failed">>, error |-> ""]

\* Step 3, lines 382-406: does the synthesis answer yield a report
SynthesisFailed(a) ==
    \/ a.kind = "transport"
    \/ ~a.ok
    \/ a.shape # "text"

\* Step 4 without its own catch: the save error reaches the Step 3 catch
SaveError_Propagated(a) ==
    CASE a = "error" -> "Failed to generate report content"
      [] a = "norecord" -> "Failed to generate report content"
      [] OTHER -> ""

\* Step 4 as a best-effort save: neither `saveError` nor a missing record throws
SaveError_BestEffort(a) == ""

\* Step 4, lines 426-433: the error thrown after the insert, "" when none
SaveError(a) ==
    CASE a = "error" -> "Failed to save report: rejected"
      [] a = "norecord" -> "No report record returned after save"
      [] OTHER -> ""

\* the join as Promise.any: the handler goes on after the first fulfilment
Joined_First(ts) == \E j \in 1..Len(ts) : ts[j].state = "fulfilled"

\* line 235: `await Promise.all(...)` resolves once every promise has fulfilled
Joined(ts) == \A j \in 1..Len(ts) : ts[j].state = "fulfilled"

Pending == [state |-> "pending", analysis |-> <<>>, error |-> "", answer |-> NoAnswer]

\* lines 362-367: the analyses in the papers' order
paperAnalyses(ts) ==
    [i \in 1..Len(papers) |-> [paper |-> papers[i], analysis |-> ts[i].analysis]]

\* the Step 4 catch answering and then rethrowing into the Step 3 catch
CatchChain_Rethrow(step) ==
    CASE step = "search" -> <<"step1">>
      [] step = "analysis" -> <<"outer">>
      [] step = "synthesis" -> <<"step3">>
      [] step = "save" -> <<"step4", "step3">>

\* Step 4 without a try of its own: its errors land in the Step 3 catch
CatchChain_NoStep4(step) ==
    CASE step = "search" -> <<"step1">>
      [] step = "analysis" -> <<"outer">>
      [] OTHER -> <<"step3">>

\* lines 197-458: the catch blocks that answer an error thrown in each step: the
\* innermost enclosing one, which answers and neither rethrows nor falls through
\* (Step 1: 207-232, Step 2: only the outer try 197-458, Step 3: 371-451,
\* Step 4: 409-446)
CatchChain(step) ==
    CASE step = "search" -> <<"step1">>
      [] step = "analysis" -> <<"outer">>
      [] step = "synthesis" -> <<"step3">>
      [] step = "save" -> <<"step4">>

\* lines 230, 443-445, 450, 455-457: the error text a catch block answers with
CatchMessage(block, err) ==
    CASE block = "step1" -> "Failed to fetch papers from arXiv"
      [] block = "step3" -> "Failed to generate report content"
      [] OTHER -> err

\* an error with message `err` is thrown in `step`: every catch block of its
\* chain sends a 500
Throw(step, err) ==
    LET chain == CatchChain(step) IN
    /\ res' = IF sent = 0
              THEN [status |-> 500, error |-> CatchMessage(chain[1], err),
                    body |-> NoBody]
              ELSE res
    /\ sent' = sent + Len(chain)

\* lines 198-210: validation, then the search request is issued
generateReport_Start ==
    /\ pc = "handler" /\ route = "/api/generate-report"
    /\ IF QueryMissing(body)
       THEN /\ Respond(400, "Query is required", NoBody)
            /\ pc' = "done"
            /\ UNCHANGED calls
       ELSE /\ Issue("search", 1)
            /\ pc' = "gr_fetch"
            /\ UNCHANGED <<res, sent>>
    /\ UNCHANGED <<answers, route, header, body, user, idp, papers, tasks, prompt,
                   finalReport, suggestions, store>>

\* lines 207-267 and 382: the search answers; on success every per-paper request
\* is issued at once.  With no paper Promise.all([]) resolves at once and the
\* synthesis request follows.
generateReport_Fetched ==
    /\ pc = "gr_fetch"
    /\ \E a \in SearchAnswers :
          /\ answers' = [answers EXCEPT !.search = a]
          /\ IF SearchFailed(a)
             THEN /\ Throw("search", "Failed to fetch papers from arXiv")
                  /\ pc' = "done"
                  /\ UNCHANGED <<calls, papers, tasks, prompt>>
             ELSE /\ papers' = [i \in 1..a.n |-> i]
                  /\ tasks' = [i \in 1..a.n |-> Pending]
                  /\ IF a.n = 0
                     THEN /\ Issue("completion", 1)
                          /\ pc' = "gr_synth"
                     ELSE /\ Issue("completion", a.n)
                          /\ pc' = "gr_analysis"
                  /\ prompt' = <<>>
                  /\ UNCHANGED <<res, sent>>
    /\ UNCHANGED <<route, header, body, user, idp, finalReport, suggestions, store>>

\* lines 235-267, 362-394 and 453-458: one per-paper promise settles.  The first
\* rejection rejects Promise.all and lands in the outer catch; the last
\* fulfilment lets the handler build the prompt and issue the synthesis request.
\* Promises that settle after the handler has left change nothing but themselves.
generateReport_Analysed(i) ==
    /\ route = "/api/generate-report"
    /\ pc \in {"gr_analysis", "done"}
    /\ i \in 1..Len(tasks)
    /\ tasks[i].state = "pending"
    /\ \E a \in CompletionAnswers({<<"S">>}) :
          LET o == AnalysisOutcome(a)
              ts == [tasks EXCEPT ![i] = [state |-> o.state, analysis |-> o.analysis,
                                          error |-> o.error, answer |-> a]]
          IN /\ tasks' = ts
             /\ IF pc = "gr_analysis" /\ o.state = "rejected"
                THEN /\ Throw("analysis", o.error)
                     /\ pc' = "done"
                     /\ UNCHANGED <<calls, prompt>>
                ELSE IF pc = "gr_analysis" /\ Joined(ts)
                THEN /\ prompt' = paperAnalyses(ts)
                     /\ Issue("completion", 1)
                     /\ pc' = "gr_synth"
                     /\ UNCHANGED <<res, sent>>
                ELSE UNCHANGED <<res, sent, calls, prompt, pc>>
    /\ UNCHANGED <<answers, route, header, body, user, idp, papers, finalReport,
                   suggestions, store>>

\* lines 382-424 and 441-451: the synthesis answers; with a report in hand the
\* owner is checked and the insert issued
generateReport_Synthesised ==
    /\ pc = "gr_synth"
    /\ \E a \in CompletionAnswers({<<"R">>}) :
          /\ answers' = [answers EXCEPT !.synthesis = a]
          /\ IF SynthesisFailed(a)
             THEN /\ Throw("synthesis", "No report content generated")
                  /\ pc' = "done"
                  /\ UNCHANGED <<calls, finalReport>>
             ELSE /\ finalReport' = a.content
                  /\ IF OwnerMissing(user)
                     THEN /\ Throw("save", "No authenticated user found")
                          /\ pc' = "done"
                          /\ UNCHANGED calls
                     ELSE /\ Issue("store", 1)
                          /\ pc' = "gr_insert"
                          /\ UNCHANGED <<res, sent>>
    /\ UNCHANGED <<route, header, body, user, idp, papers, tasks, prompt,
                   suggestions, store>>

\* lines 416-446: the store answers
generateReport_Inserted ==
    /\ pc = "gr_insert"
    /\ \E a \in StoreAnswers :
          /\ answers' = [answers EXCEPT !.store = a]
          /\ LET row == Row(user.id, body.query, finalReport, Absent)
                 reportRecord == IF a = "record" THEN row ELSE NoBody
             IN /\ store' = IF a = "record" THEN Append(store, row) ELSE store
                /\ IF SaveError(a) # ""
                   THEN Throw("save", SaveError(a))
                   ELSE Respond(200, "", [kind |-> "report", report |-> finalReport,
                                          papers |-> paperAnalyses(tasks),
                                          savedReport |-> reportRecord])
    /\ pc' = "done"
    /\ UNCHANGED <<route, header, body, user, idp, calls, papers, tasks, prompt,
                   finalReport, suggestions>>

(* ----------------------------------------------------- POST /api/search-papers *)
\* lines 96-126: one per-paper summary; its own try/catch turns every failure
\* into a literal, so the promise always fulfils
SummaryOutcome(a) ==
    CASE a.kind = "transport" \/ ~a.ok \/ a.shape = "notjson" ->
           [state |-> "fulfilled", analysis |-> <<"Summary generation failed">>, error |-> ""]
      [] a.shape = "text" ->
           [state |-> "fulfilled", analysis |-> a.content, error |-> ""]
      [] OTHER ->
           [state |-> "fulfilled", analysis |-> <<"Summary not available">>, error |-> ""]

\* lines 72-74 and 155-158: the message of the error the outer catch reports
SearchErrorMessage(a) ==
    CASE a.kind = "transport" -> "fetch failed"
      [] a.kind = "notok" -> "ArXiv API error: status"
      [] OTHER -> "Cannot read properties of undefined"

\* searchPapers without the early return on an empty result
NoEntries_Never(a) == FALSE

\* lines 82-85: `if (!entries || entries.length === 0)`
NoEntries(a) == a.n = 0

\* lines 59-70
searchPapers_Start ==
    /\ pc = "handler" /\ route = "/api/search-papers"
    /\ IF QueryMissing(body)
       THEN /\ Respond(400, "Query is required", NoBody)
            /\ pc' = "done"
            /\ UNCHANGED calls
       ELSE /\ Issue("search", 1)
            /\ pc' = "sp_fetch"
            /\ UNCHANGED <<res, sent>>
    /\ UNCHANGED <<answers, route, header, body, user, idp, papers, tasks, prompt,
                   finalReport, suggestions, store>>

\* lines 68-149 and 155-159: past the early return every per-paper request is
\* issued at once (Promise.all over no promise resolves at once and the
\* overview request follows)
searchPapers_Fetched ==
    /\ pc = "sp_fetch"
    /\ \E a \in SearchAnswers :
          /\ answers' = [answers EXCEPT !.search = a]
          /\ IF SearchFailed(a)
             THEN /\ Respond(500, SearchErrorMessage(a), NoBody)
                  /\ pc' = "done"
                  /\ UNCHANGED <<calls, papers, tasks>>
             ELSE IF NoEntries(a)
             THEN /\ Respond(200, "", [kind |-> "search", papers |-> <<>>,
                                       summaries |-> <<>>, consolidatedSummary |-> <<>>])
                  /\ pc' = "done"
                  /\ UNCHANGED <<calls, papers, tasks>>
             ELSE /\ papers' = [i \in 1..a.n |-> i]
                  /\ tasks' = [i \in 1..a.n |-> Pending]
                  /\ Issue("completion", IF a.n = 0 THEN 1 ELSE a.n)
                  /\ pc' = IF a.n = 0 THEN "sp_overview" ELSE "sp_summaries"
                  /\ UNCHANGED <<res, sent>>
    /\ UNCHANGED <<route, header, body, user, idp, prompt, finalReport,
                   suggestions, store>>

\* lines 95-149: a summary settles; after the last one the overview is requested
searchPapers_Summarised(i) ==
    /\ pc = "sp_summaries"
    /\ i \in 1..Len(tasks)
    /\ tasks[i].state = "pending"
    /\ \E a \in CompletionAnswers({<<"S">>}) :
          LET o == SummaryOutcome(a)
              ts == [tasks EXCEPT ![i] = [state |-> o.state, analysis |-> o.analysis,
                                          error |-> o.error, answer |-> a]]
          IN
          /\ tasks' = ts
          /\ IF Joined(ts)
             THEN /\ Issue("completion", 1)
                  /\ pc' = "sp_overview"
             ELSE UNCHANGED <<calls, pc>>
    /\ UNCHANGED <<answers, route, header, body, user, idp, res, sent, papers, prompt,
                   finalReport, suggestions, store>>

\* lines 151-159: the overview answers; its status is not looked at
searchPapers_Consolidated ==
    /\ pc = "sp_overview"
    /\ \E a \in CompletionAnswers({<<"O">>}) :
          IF a.kind = "transport"
          THEN Respond(500, "fetch failed", NoBody)
          ELSE IF a.shape = "notjson"
          THEN Respond(500, "invalid json response body", NoBody)
          ELSE Respond(200, "",
                 [kind |-> "search", papers |-> papers,
                  summaries |-> [i \in 1..Len(tasks) |-> tasks[i].analysis],
                  consolidatedSummary |->
                     IF a.shape = "text" THEN a.content
                     ELSE <<"Overview not available">>])
    /\ pc' = "done"
    /\ UNCHANGED <<answers, route, header, body, user, idp, calls, papers, tasks, prompt,
                   finalReport, suggestions, store>>

(* ----------------------------------------------------- POST /api/analyze-paper *)
\* lines 569-597
analyzePaper_Start ==
    /\ pc = "handler" /\ route = "/api/analyze-paper"
    /\ IF Falsy(body.abstract)
       THEN /\ Respond(400, "Abstract is required", NoBody)
            /\ pc' = "done"
            /\ UNCHANGED calls
       ELSE /\ Issue("completion", 1)
            /\ pc' = "ap_wait"
            /\ UNCHANGED <<res, sent>>
    /\ UNCHANGED <<answers, route, header, body, user, idp, papers, tasks, prompt,
                   finalReport, suggestions, store>>

\* lines 599-608
analyzePaper_Answered ==
    /\ pc = "ap_wait"
    /\ \E a \in CompletionAnswers({<<"S">>}) :
          IF a.kind = "transport" \/ ~a.ok \/ a.shape \in {"notjson", "nochoices"}
          THEN Respond(500, "Failed to analyze paper", NoBody)
          ELSE Respond(200, "",
                 [kind |-> "summary",
                  summary |-> IF a.shape = "text" THEN a.content
                              ELSE <<"Failed to generate summary">>])
    /\ pc' = "done"
    /\ UNCHANGED <<answers, route, header, body, user, idp, calls, papers, tasks, prompt,
                   finalReport, suggestions, store>>

(* ---------------------------------------------------- POST /api/suggest-prompt *)
TagChars == {"a", " ", ","}
TagTexts == UNION {[1..n -> TagChars] : n \in 1..MaxTagLen}

SuggestionFields == {"refinedQuery", "suggestedElements", "questionVariations",
                     "relatedConcepts"}
SuggestionTexts == {<<"garbage">>, <<"null">>, <<"{}">>, <<"{suggestion}">>}

\* String.prototype.split(','), line 560
RECURSIVE Split(_)
Split(t) ==
    IF \A k \in 1..Len(t) : t[k] # ","
    THEN <<t>>
    ELSE LET k == CHOOSE k \in 1..Len(t) :
                     t[k] = "," /\ \A j \in 1..(k - 1) : t[j] # ","
         IN <<SubSeq(t, 1, k - 1)>> \o Split(SubSeq(t, k + 1, Len(t)))

RECURSIVE TrimStart(_)
TrimStart(t) == IF t # <<>> /\ Head(t) = " " THEN TrimStart(Tail(t)) ELSE t

RECURSIVE TrimEnd(_)
TrimEnd(t) ==
    IF t # <<>> /\ t[Len(t)] = " " THEN TrimEnd(SubSeq(t, 1, Len(t) - 1)) ELSE t

\* String.prototype.trim(), line 560
Trim(t) == TrimEnd(TrimStart(t))

\* JSON.parse, line 526: throws on text that is not JSON; `null` is JSON
JSONParse(t) ==
    CASE t = <<"{suggestion}">> -> [kind |-> "object", fields |-> SuggestionFields]
      [] t = <<"{}">> -> [kind |-> "object", fields |-> {}]
      [] t = <<"null">> -> [kind |-> "null", fields |-> {}]
      [] OTHER -> [kind |-> "threw", fields |-> {}]

\* line 526: `data.choices[0]?.message?.content || '{}'`
SuggestionText(a) == IF a.shape = "text" THEN a.content ELSE <<"{}">>

\* lines 525-526: the primary completion as the handler reads it: "threw" when
\* the fetch, json(), `data.choices[0]` or JSON.parse throws
PrimarySuggestion(a) ==
    IF a.kind = "transport" \/ a.shape \in {"notjson", "nochoices"}
    THEN [kind |-> "threw", fields |-> {}]
    ELSE JSONParse(SuggestionText(a))

\* getResearchTags splitting `(content || '')`: a missing content gives ['']
getResearchTags_EmptyTag(a) ==
    CASE a.kind = "transport" -> <<>>
      [] a.shape \in {"notjson", "nochoices"} -> <<>>
      [] OTHER -> LET parts == Split(a.content)
                  IN [k \in 1..Len(parts) |-> Trim(parts[k])]

\* getResearchTags, lines 538-565.  A throw inside the try (fetch, json(),
\* `data.choices[0]`, `.split` of an undefined content) is caught and gives [];
\* a short-circuited optional chain gives `undefined || []`.
getResearchTags(a) ==
    CASE a.kind = "transport" -> <<>>
      [] a.shape \in {"notjson", "nochoices", "emptychoices", "nocontent"} -> <<>>
      [] OTHER -> LET parts == Split(a.content)
                  IN [k \in 1..Len(parts) |-> Trim(parts[k])]

\* next(error) with no error middleware registered: Express answers 500
ExpressError == Respond(500, "Internal Server Error", NoBody)

\* lines 464-523: no validation of initialQuery; the primary request is issued
suggestPrompt_Start ==
    /\ pc = "handler" /\ route = "/api/suggest-prompt"
    /\ Issue("completion", 1)
    /\ pc' = "su_primary"
    /\ UNCHANGED <<answers, route, header, body, user, idp, res, sent, papers, tasks, prompt,
                   finalReport, suggestions, store>>

\* lines 525-528 and 532-534
suggestPrompt_Primary ==
    /\ pc = "su_primary"
    /\ \E a \in CompletionAnswers(SuggestionTexts) :
          /\ answers' = [answers EXCEPT !.primary = a]
          /\ LET p == PrimarySuggestion(a) IN
             IF p.kind = "threw"
             THEN /\ ExpressError
                  /\ pc' = "done"
                  /\ UNCHANGED <<calls, suggestions>>
             ELSE /\ suggestions' = [kind |-> p.kind, fields |-> p.fields,
                                     researchTags |-> <<>>]
                  /\ Issue("completion", 1)
                  /\ pc' = "su_tags"
                  /\ UNCHANGED <<res, sent>>
    /\ UNCHANGED <<route, header, body, user, idp, papers, tasks, prompt,
                   finalReport, store>>

\* lines 528-534: the tag request answers; assigning a property to `null` throws
suggestPrompt_Tags ==
    /\ pc = "su_tags"
    /\ \E a \in CompletionAnswers(TagTexts) :
          /\ answers' = [answers EXCEPT !.tags = a]
          /\ LET tags == getResearchTags(a) IN
             IF suggestions.kind = "null"
             THEN /\ ExpressError
                  /\ UNCHANGED suggestions
             ELSE /\ suggestions' = [suggestions EXCEPT
                                        !.fields = @ \cup {"researchTags"},
                                        !.researchTags = tags]
                  /\ Respond(200, "", [kind |-> "suggestion",
                                       fields |-> suggestions.fields \cup {"researchTags"},
                                       researchTags |-> tags])
    /\ pc' = "done"
    /\ UNCHANGED <<route, header, body, user, idp, calls, papers, tasks, prompt,
                   finalReport, store>>

(* ---------------------------------------------------------- specification *)
Next ==
    \/ Receive
    \/ Finish
    \/ authenticateUser_NoHeader
    \/ authenticateUser_Verify
    \/ authenticateToken_NoHeader
    \/ authenticateToken_Verify
    \/ generateReportHandler
    \/ saveSearch_Start
    \/ saveSearch_Inserted
    \/ generateReport_Start
    \/ generateReport_Fetched
    \/ \E i \in 1..MaxPapers : generateReport_Analysed(i)
    \/ generateReport_Synthesised
    \/ generateReport_Inserted
    \/ searchPapers_Start
    \/ searchPapers_Fetched
    \/ \E i \in 1..MaxPapers : searchPapers_Summarised(i)
    \/ searchPapers_Consolidated
    \/ analyzePaper_Start
    \/ analyzePaper_Answered
    \/ suggestPrompt_Start
    \/ suggestPrompt_Primary
    \/ suggestPrompt_Tags

Spec == Init /\ [][Next]_vars

TypeOK ==
    /\ route \in Routes
    /\ res.status \in {0, 200, 400, 401, 500}
    /\ sent \in 0..2
    /\ Len(store) <= MaxRecords
(* ------------------------------------------------------------------ claims *)
ReportRoute == route = "/api/generate-report"

\* the request got past the Authentication Gate of its route with a resolved
\* user id (the research router has no gate in front of its handler)
Admitted == route = "/generate-report" \/ (idp.kind = "user" /\ idp.id \in UserIds)

\* the bearer credential of the request is absent or was rejected
Unauthenticated ==
    \/ route = "/generate-report" /\ user = NoUser
    \/ route # "/generate-report"
         /\ (header = "none" \/ idp.kind \in {"throws", "error", "nouser"})

\* C1 (as stated): on every route that takes `query`, a request admitted to
\* its handler with an empty or absent `query` makes no search, completion or
\* store call and is answered with 400.
C1_MissingQueryRejected ==
    (pc \notin {"idle", "gate"} /\ route \in QueryRoutes /\ Admitted
        /\ body.query \in {Absent, ""})
    => /\ calls = NoCalls
       /\ pc = "done" => res.status = 400

\* C2 (as stated): on every route, a request whose credential is absent or
\* rejected makes no search, completion or store call and is answered with
\* 401, whatever its body holds.
C2_UnauthenticatedRejected ==
    (pc # "idle" /\ Unauthenticated)
    => /\ calls = NoCalls
       /\ pc = "done" => res.status = 401

\* the provider failed a per-paper call in the sense of C3: transport failure,
\* non-success response, or no usable completion in the response
ProviderFailed(a) == a.kind = "transport" \/ ~a.ok \/ a.shape # "text"

\* the per-paper call fails in the sense the code knows: the fetch rejects, the
\* body is not JSON, or the body has no choices list
AnalysisThrows(a) ==
    a.kind = "transport" \/ (a.kind = "response" /\ a.shape \in {"notjson", "nochoices"})

C4_OwnerOnEveryRecord ==
    [][ /\ store' # store =>
             /\ Len(store') = Len(store) + 1
             /\ SubSeq(store', 1, Len(store)) = store
             /\ route \in {"/api/generate-report", "/api/save-search"}
             /\ idp.kind = "user"
             /\ store'[Len(store')].user_id = idp.id
             /\ store'[Len(store')].user_id \in UserIds
        /\ (route' \in {"/api/generate-report", "/api/save-search"}
              /\ (user' = NoUser \/ user'.id = NoId))
             => /\ calls'.store = 0
                /\ (pc = "gr_synth" /\ finalReport' # <<>>)
                     => res' = [status |-> 500, error |-> "No authenticated user found",
                                body |-> NoBody]
                /\ (pc = "handler" /\ route = "/api/save-search")
                     => res' = [status |-> 500, error |-> "No authenticated user found",
                                body |-> NoBody]
      ]_vars

\* C4 witness: a row has been stored for the user of the request
C4_Witness ==
    /\ route \in {"/api/generate-report", "/api/save-search"}
    /\ pc = "done" /\ res.status = 200 /\ answers.store = "record"
    /\ Len(store) = 1 /\ store[1].user_id = user.id

\* C5: when the store rejects the insert of /api/generate-report, the answer
\* is 500 with the save-failure message, never the generation-failure one.
C5_SaveFailureMessage ==
    (ReportRoute /\ answers.store = "error")
    => /\ pc = "done"
       /\ res.status = 500
       /\ res.error = "Failed to save report: rejected"
       /\ res.error # "Failed to generate report content"

\* C5 witness: the store rejected the insert of a generated report
C5_Witness ==
    ReportRoute /\ answers.store = "error" /\ finalReport # <<>> /\ pc = "done"

\* C6: a 200 answer of /api/generate-report follows, in the same request, one
\* insert that returned a record without error; that record is the answer's
\* savedReport, it is in the store and it holds the report of the answer.
C6_NoUnsavedReport ==
    (ReportRoute /\ res.status = 200)
    => /\ answers.store = "record"
       /\ calls.store = 1
       /\ Len(store) >= 1
       /\ res.body.kind = "report"
       /\ res.body.savedReport = store[Len(store)]
       /\ res.body.savedReport.content = res.body.report
       /\ res.body.report = finalReport

\* C6 witness: a report has been returned with status 200
C6_Witness == ReportRoute /\ res.status = 200 /\ pc = "done"

\* C7: when the search step of /api/generate-report fails, the answer is 500
\* with the search-failure error; no analysis or synthesis call and no insert
\* is made, and no paper is substituted.
C7_SearchFailureAborts ==
    (ReportRoute /\ answers.search.kind \in {"transport", "notok", "parsefail"})
    => /\ pc = "done"
       /\ res = [status |-> 500, error |-> "Failed to fetch papers from arXiv",
                 body |-> NoBody]
       /\ calls.completion = 0
       /\ calls.store = 0
       /\ papers = <<>> /\ tasks = <<>>

\* C7 witness: the search provider answered with a non-success response
C7_Witness == ReportRoute /\ answers.search.kind = "notok" /\ pc = "done"

\* C8: when the search provider answers /api/search-papers successfully with
\* zero entries, the answer is 200 with empty papers, summaries and
\* consolidatedSummary, and no completion call is made.
C8_EmptySearchResult ==
    (route = "/api/search-papers" /\ answers.search.kind = "entries"
        /\ answers.search.n = 0)
    => /\ pc = "done"
       /\ res = [status |-> 200, error |-> "",
                 body |-> [kind |-> "search", papers |-> <<>>, summaries |-> <<>>,
                           consolidatedSummary |-> <<>>]]
       /\ calls.completion = 0

\* C8 witness: a search that found nothing has been answered
C8_Witness ==
    /\ route = "/api/search-papers" /\ answers.search.kind = "entries"
    /\ answers.search.n = 0 /\ pc = "done"

\* the primary completion yields text that parses as the structured suggestion
YieldsSuggestion(a) ==
    a.kind = "response" /\ a.shape = "text" /\ a.content = <<"{suggestion}">>

\* C9 (as stated): when the primary completion of /api/suggest-prompt does not
\* yield text that parses as the structured suggestion, no success response is
\* sent: the request fails.
C9_AllOrNothingParse ==
    (route = "/api/suggest-prompt" /\ answers.primary.kind # "none"
        /\ ~YieldsSuggestion(answers.primary))
    => /\ res.status # 200
       /\ pc = "done" => res.status = 500

\* the tag-generation call failed: transport error, response without choices,
\* or response without content
TagCallFailed(a) ==
    \/ a.kind = "transport"
    \/ a.kind = "response" /\ a.shape \in {"notjson", "nochoices", "emptychoices", "nocontent"}

\* C10: once the primary suggestion of /api/suggest-prompt has parsed to an
\* object, the request is answered with 200 and that suggestion whatever the
\* tag-generation call does, and with researchTags = [] when that call failed.
C10_TagFailureDegrades ==
    (route = "/api/suggest-prompt" /\ pc = "done" /\ suggestions.kind = "object")
    => /\ res.status = 200
       /\ res.body.kind = "suggestion"
       /\ res.body.fields =
            JSONParse(SuggestionText(answers.primary)).fields \cup {"researchTags"}
       /\ TagCallFailed(answers.tags) => res.body.researchTags = <<>>

\* C10 witness: the suggestion parsed, the tag call failed at the transport,
\* and the request succeeded
C10_Witness ==
    /\ route = "/api/suggest-prompt" /\ pc = "done"
    /\ YieldsSuggestion(answers.primary)
    /\ answers.tags.kind = "transport"
    /\ res.status = 200
\* C11: in /api/generate-report, under every order in which the per-paper
\* calls settle, the synthesis request is issued only once every per-paper
\* promise has fulfilled, its prompt holds exactly one analysis per fetched
\* paper in the papers' order, and the insert is issued only after the
\* synthesis call has returned content.
C11_AllOrNothingJoin ==
    ReportRoute =>
      /\ calls.completion > Len(papers) =>
           /\ answers.search.kind = "entries"
           /\ Len(papers) = answers.search.n
           /\ calls.completion = Len(papers) + 1
           /\ Len(tasks) = Len(papers)
           /\ Len(prompt) = Len(papers)
           /\ \A i \in 1..Len(papers) :
                /\ tasks[i].state = "fulfilled"
                /\ ~AnalysisThrows(tasks[i].answer)
                /\ prompt[i] = [paper |-> papers[i],
                                analysis |-> IF tasks[i].answer.shape = "text"
                                             THEN tasks[i].answer.content
                                             ELSE <<"Analysis failed">>]
      /\ calls.store > 0 =>
           /\ calls.completion = Len(papers) + 1
           /\ answers.synthesis.kind = "response"
           /\ answers.synthesis.shape = "text"
           /\ finalReport = answers.synthesis.content
           /\ finalReport # <<>>

\* C11 witness: two per-paper calls have settled, the synthesis has returned
\* content and the insert has been issued
C11_Witness ==
    /\ ReportRoute /\ Len(papers) = 2 /\ pc = "gr_insert"
    /\ calls = [search |-> 1, completion |-> 3, store |-> 1]
\* the step of /api/generate-report that failed, from what the upstreams
\* answered: a step fails when it throws
FailedStep ==
    CASE answers.search.kind \in {"transport", "notok", "parsefail"} -> "search"
      [] \E i \in 1..Len(tasks) : AnalysisThrows(tasks[i].answer) -> "analysis"
      [] answers.synthesis.kind # "none" /\ ProviderFailed(answers.synthesis)
           -> "synthesis"
      [] \/ answers.store \in {"error", "norecord"}
         \/ (answers.synthesis.kind # "none" /\ ~ProviderFailed(answers.synthesis)
               /\ (user = NoUser \/ user.id = NoId))
           -> "persistence"
      [] OTHER -> "none"

\* what a caller reads from the error text of a response
StepOfError(e) ==
    CASE e = "Failed to fetch papers from arXiv" -> "search"
      [] e \in {"fetch failed", "invalid json response body",
                "Cannot read properties of undefined"} -> "analysis"
      [] e = "Failed to generate report content" -> "synthesis"
      [] e \in {"Failed to save report: rejected",
                "No report record returned after save",
                "No authenticated user found"} -> "persistence"
      [] OTHER -> "none"

\* C12: in /api/generate-report the failure of each of the four steps is
\* answered with 500 and an error text from which the failed step can be read:
\* texts of different steps never coincide.
C12_DistinctStepErrors ==
    (ReportRoute /\ pc = "done" /\ res.status \notin {400, 401})
    => /\ FailedStep # "none" <=> res.status = 500
       /\ FailedStep = "none" <=> res.status = 200
       /\ res.status = 500 => StepOfError(res.error) = FailedStep

\* C12 witness: a per-paper analysis call threw after two papers were fetched
\* and the request was answered with that error
C12_Witness ==
    /\ ReportRoute /\ pc = "done" /\ Len(papers) = 2
    /\ FailedStep = "analysis" /\ res.status = 500
    /\ StepOfError(res.error) = "analysis"

\* C13: a request to /api/generate-report or to the research router's
\* /generate-report never gets a second response, and once its handler (or the
\* gate in front of it) is through, whatever failed on the way, exactly one
\* response has been sent.
C13_ExactlyOneResponse ==
    route \in {"/api/generate-report", "/generate-report"}
    => /\ sent <= 1
       /\ pc = "done" <=> sent = 1
       /\ sent = 1 <=> res.status # 0

\* C13 witness: the store rejected the insert, the innermost of the three
\* nested catch blocks answered, and a per-paper call had settled before
C13_Witness ==
    /\ ReportRoute /\ pc = "done" /\ sent = 1
    /\ answers.store = "error" /\ Len(tasks) = 2
====
